---- MODULE Spec2Model ----
(***************************************************************************)
(* Model of src/app.py: a Flask application that reads keywords from an    *)
(* uploaded spreadsheet, searches Reddit for each keyword on a background  *)
(* thread and publishes progress and results through the module-level      *)
(* dictionary search_progress.                                             *)
(*                                                                         *)
(* Threads.  Flask serves each request on its own thread and upload_file   *)
(* starts one daemon thread per accepted upload; nothing is locked.  Every *)
(* statement of search_reddit that stores into search_progress is one step *)
(* of the model (a dictionary store is atomic under the interpreter lock,  *)
(* a sequence of stores is not).  Statements that touch only locals are    *)
(* folded into the neighbouring step.  show_results and download_results   *)
(* read search_progress['results'] twice, so each is two steps; the model  *)
(* keeps at most one such request between its two reads at a time.         *)
(*                                                                         *)
(* Responses.  response is the HTTP response sent by the step that led to  *)
(* the state, and no_response after a step that sends none; request is the *)
(* upload request that step handled, and no_request after any other step.  *)
(* uploads is the set of upload requests the clients may send; it never    *)
(* changes.                                                                *)
(*                                                                         *)
(* Options.  Python's None is the empty sequence and a present value x is  *)
(* the one-element sequence <<x>>.                                         *)
(*                                                                         *)
(* Not modelled: the handler at lines 89-92.  Inside the outer try only    *)
(* the loop header, the two stores of lines 66-67 and the inner handler's  *)
(* print can run outside the inner try; the stores cannot raise and the    *)
(* model assumes that writing the log line succeeds.                       *)
(***************************************************************************)
EXTENDS Integers, Sequences, FiniteSets, TLC

VARIABLES
    reddit,           \* the module-level client: "client", or "None"
    search_progress,  \* the module-level dictionary
    threads,          \* one record per launched search_reddit thread
    now,              \* the wall clock when last read, in whole seconds
    uploads,          \* the upload requests the clients may send
    request,          \* the upload request handled by the step just taken
    response,         \* the HTTP response sent by the step just taken
    inflight,         \* the /results or /download request between its reads
    disturbed         \* history: per thread, what overlapped its lifetime

vars == <<reddit, search_progress, threads, now, uploads, request, response,
          inflight, disturbed>>

----------------------------------------------------------------------------
(* Bounds *)

MaxJobs == 2
MaxCells == 2
MaxPosts == 2
MaxClock == 1

----------------------------------------------------------------------------
(* Values *)

None == <<>>
Some(x) == <<x>>

Keywords == {"a", "b"}
NaN == "NaN"

CONFIG_ERROR ==
    "Reddit API not configured properly. Please check your environment variables."

SEARCH_LIMIT == 5

no_response == [op |-> "none"]
no_request == [part |-> FALSE, filename |-> <<"-">>]

initial_progress ==
    [current |-> 0, total |-> 0, message |-> "", is_running |-> FALSE,
     results |-> None, error |-> None, search_id |-> None]

strftime(t) == ToString(t)

Jobs == 1..MaxJobs

unstarted ==
    [pc |-> "unstarted", keywords |-> <<>>, search_id |-> "", i |-> 0,
     results |-> <<>>, calls |-> <<>>]

Alive(j) == threads[j].pc \notin {"unstarted", "done"}
Launched == {j \in Jobs : threads[j].pc # "unstarted"}

----------------------------------------------------------------------------
(* The external search client: what one call of                            *)
(* reddit.subreddit("all").search(keyword, sort="top", limit=5) can do.    *)
(* It yields n submissions and then either ends or raises.                 *)

Min(a, b) == IF a < b THEN a ELSE b

SearchOutcomes ==
    {[posts |-> n, raises |-> r] :
        n \in 0..Min(MaxPosts, SEARCH_LIMIT), r \in BOOLEAN}

QuietOutcomes == {[posts |-> 0, raises |-> FALSE]}

(* The record appended at lines 72-80 for the k-th submission yielded to
   thread j at batch position p.  Submission stands for the six fields
   copied from the submission. *)
ResultRecord(j, p, keyword, k) ==
    [Keyword |-> keyword, Submission |-> <<j, p, k>>]

RECURSIVE Appended(_, _, _, _)
Appended(j, p, keyword, n) ==
    IF n = 0 THEN <<>>
    ELSE Append(Appended(j, p, keyword, n - 1), ResultRecord(j, p, keyword, n))

----------------------------------------------------------------------------
(* search_reddit, lines 46-92 *)

Step(j, pc) == [threads EXCEPT ![j].pc = pc]

config_error_progress_lost(sp) == sp
config_error_progress_with_results(sp) ==
    [sp EXCEPT !.error = Some(CONFIG_ERROR), !.results = Some(<<>>)]
config_error_progress(sp) == [sp EXCEPT !.error = Some(CONFIG_ERROR)]

(* lines 48-53: client missing, error is stored *)
search_reddit_53(j) ==
    /\ threads[j].pc = "l52"
    /\ reddit = "None"
    /\ search_progress' = config_error_progress(search_progress)
    /\ threads' = Step(j, "l54")
    /\ response' = no_response
    /\ request' = no_request
    /\ UNCHANGED <<uploads, reddit, now, inflight, disturbed>>

(* lines 54-55 *)
search_reddit_54(j) ==
    /\ threads[j].pc = "l54"
    /\ search_progress' = [search_progress EXCEPT !.is_running = FALSE]
    /\ threads' = Step(j, "done")
    /\ response' = no_response
    /\ request' = no_request
    /\ UNCHANGED <<uploads, reddit, now, inflight, disturbed>>

(* lines 48-52 and 57 *)
search_reddit_57(j) ==
    /\ threads[j].pc = "l52"
    /\ reddit # "None"
    /\ search_progress' =
         [search_progress EXCEPT !.total = Len(threads[j].keywords)]
    /\ threads' = Step(j, "l58")
    /\ response' = no_response
    /\ request' = no_request
    /\ UNCHANGED <<uploads, reddit, now, inflight, disturbed>>

search_reddit_58(j) ==
    /\ threads[j].pc = "l58"
    /\ search_progress' = [search_progress EXCEPT !.current = 0]
    /\ threads' = Step(j, "l59")
    /\ response' = no_response
    /\ request' = no_request
    /\ UNCHANGED <<uploads, reddit, now, inflight, disturbed>>

search_reddit_59(j) ==
    /\ threads[j].pc = "l59"
    /\ search_progress' = [search_progress EXCEPT !.is_running = TRUE]
    /\ threads' = Step(j, "l60")
    /\ response' = no_response
    /\ request' = no_request
    /\ UNCHANGED <<uploads, reddit, now, inflight, disturbed>>

search_reddit_60(j) ==
    /\ threads[j].pc = "l60"
    /\ search_progress' = [search_progress EXCEPT !.error = None]
    /\ threads' = Step(j, "l61")
    /\ response' = no_response
    /\ request' = no_request
    /\ UNCHANGED <<uploads, reddit, now, inflight, disturbed>>

search_reddit_61(j) ==
    /\ threads[j].pc = "l61"
    /\ search_progress' =
         [search_progress EXCEPT !.search_id = Some(threads[j].search_id)]
    /\ threads' = Step(j, "l62")
    /\ response' = no_response
    /\ request' = no_request
    /\ UNCHANGED <<uploads, reddit, now, inflight, disturbed>>

clear_results_kept(sp) == sp
clear_results(sp) == [sp EXCEPT !.results = None]

search_reddit_62(j) ==
    /\ threads[j].pc = "l62"
    /\ search_progress' = clear_results(search_progress)
    /\ threads' = Step(j, "l65")
    /\ response' = no_response
    /\ request' = no_request
    /\ UNCHANGED <<uploads, reddit, now, inflight, disturbed>>

(* lines 65-66: the loop takes the next keyword and stores its index *)
loop_index_zero_based(n) == n
loop_index(n) == n + 1

search_reddit_66(j) ==
    /\ threads[j].pc = "l65"
    /\ threads[j].i < Len(threads[j].keywords)
    /\ search_progress' =
         [search_progress EXCEPT !.current = loop_index(threads[j].i)]
    /\ threads' = [threads EXCEPT ![j].pc = "l67", ![j].i = @ + 1]
    /\ response' = no_response
    /\ request' = no_request
    /\ UNCHANGED <<uploads, reddit, now, inflight, disturbed>>

progress_message(keyword) == "Searching for: " \o keyword

(* lines 69-83: one search call of thread record t, with outcome o.  Each
   submission yielded is appended to the local list as it arrives; a raise
   is caught and logged and the loop goes on to the next keyword.  Nothing
   here touches search_progress.  calls is history: the outcomes so far. *)
search_call_aborting(t, j, o) ==
    [t EXCEPT
       !.pc = "l65",
       !.i = IF o.raises THEN Len(t.keywords) ELSE @,
       !.results = @ \o Appended(j, t.i, t.keywords[t.i], o.posts),
       !.calls = Append(@, o)]

search_call_prepending(t, j, o) ==
    [t EXCEPT
       !.pc = "l65",
       !.results = Appended(j, t.i, t.keywords[t.i], o.posts) \o @,
       !.calls = Append(@, o)]

search_call(t, j, o) ==
    [t EXCEPT
       !.pc = "l65",
       !.results = @ \o Appended(j, t.i, t.keywords[t.i], o.posts),
       !.calls = Append(@, o)]

(* line 67, and the search call that follows it and works on locals only *)
search_reddit_67(j, outcomes) ==
    /\ threads[j].pc = "l67"
    /\ search_progress' =
         [search_progress EXCEPT
            !.message = progress_message(threads[j].keywords[threads[j].i])]
    /\ \E o \in outcomes :
         threads' = [threads EXCEPT ![j] = search_call(@, j, o)]
    /\ response' = no_response
    /\ request' = no_request
    /\ UNCHANGED <<uploads, reddit, now, inflight, disturbed>>

search_reddit_85_extending(j) ==
    /\ threads[j].pc = "l65"
    /\ threads[j].i = Len(threads[j].keywords)
    /\ search_progress' =
         [search_progress EXCEPT
            !.results = IF @ = None THEN Some(threads[j].results)
                        ELSE Some(@[1] \o threads[j].results)]
    /\ threads' = Step(j, "l86")
    /\ response' = no_response
    /\ request' = no_request
    /\ UNCHANGED <<uploads, reddit, now, inflight, disturbed>>

(* line 85, reached when the loop is exhausted *)
search_reddit_85(j) ==
    /\ threads[j].pc = "l65"
    /\ threads[j].i = Len(threads[j].keywords)
    /\ search_progress' =
         [search_progress EXCEPT !.results = Some(threads[j].results)]
    /\ threads' = Step(j, "l86")
    /\ response' = no_response
    /\ request' = no_request
    /\ UNCHANGED <<uploads, reddit, now, inflight, disturbed>>

(* lines 86-87 *)
search_reddit_86(j) ==
    /\ threads[j].pc = "l86"
    /\ search_progress' = [search_progress EXCEPT !.is_running = FALSE]
    /\ threads' = Step(j, "done")
    /\ response' = no_response
    /\ request' = no_request
    /\ UNCHANGED <<uploads, reddit, now, inflight, disturbed>>

search_reddit(j, outcomes) ==
    \/ search_reddit_53(j)
    \/ search_reddit_54(j)
    \/ search_reddit_57(j)
    \/ search_reddit_58(j)
    \/ search_reddit_59(j)
    \/ search_reddit_60(j)
    \/ search_reddit_61(j)
    \/ search_reddit_62(j)
    \/ search_reddit_66(j)
    \/ search_reddit_67(j, outcomes)
    \/ search_reddit_85(j)
    \/ search_reddit_86(j)

----------------------------------------------------------------------------
(* datetime.now(), lines 136 and 188: the clock is read, and any number of
   seconds up to MaxClock may have passed since it was last read *)
datetime_now == \E t \in now..MaxClock : now' = t

----------------------------------------------------------------------------
(* upload_file, lines 98-146 *)

(* An uploaded request: whether it carries a 'file' part, the part's
   filename (a sequence of characters), its size in bytes, whether
   pd.read_excel can read it, the sheet's column names and the cells under
   the Keyword column (NaN for a blank cell). *)
Str_xlsx == <<".", "x", "l", "s", "x">>
Str_xls == <<".", "x", "l", "s">>

endswith(s, suffix) ==
    /\ Len(s) >= Len(suffix)
    /\ SubSeq(s, Len(s) - Len(suffix) + 1, Len(s)) = suffix

allowed_extension(filename) ==
    endswith(filename, Str_xlsx) \/ endswith(filename, Str_xls)

MAX_FILE_SIZE == 5 * 1024 * 1024
MAX_KEYWORDS == 20

too_large(size) == size > MAX_FILE_SIZE
too_many_inclusive(keywords) == Len(keywords) >= MAX_KEYWORDS
too_many(keywords) == Len(keywords) > MAX_KEYWORDS

dropna(cells) == SelectSeq(cells, LAMBDA c : c # NaN)

ERR_NO_FILE == "No file selected"
ERR_EXTENSION == "Please upload an Excel file (.xlsx or .xls)"
ERR_SIZE == "File size too large. Maximum 5MB allowed."
ERR_READ == "Error reading file: "
ERR_COLUMN == "Excel file must have a 'Keyword' column"
ERR_EMPTY == "No keywords found in the Excel file"
ERR_COUNT ==
    "Too many keywords. Maximum 20 keywords allowed for Vercel deployment."

(* lines 102-133: the error of the request, or None when it is accepted *)
upload_error(f) ==
    IF ~f.part THEN Some(ERR_NO_FILE)
    ELSE IF f.filename = <<>> THEN Some(ERR_NO_FILE)
    ELSE IF ~allowed_extension(f.filename) THEN Some(ERR_EXTENSION)
    ELSE IF too_large(f.size) THEN Some(ERR_SIZE)
    ELSE IF f.read_excel # "ok" THEN Some(ERR_READ \o f.read_excel)
    ELSE IF "Keyword" \notin f.columns THEN Some(ERR_COLUMN)
    ELSE IF dropna(f.cells) = <<>> THEN Some(ERR_EMPTY)
    ELSE IF too_many(dropna(f.cells)) THEN Some(ERR_COUNT)
    ELSE None

(* lines 139-141: the thread object, about to run search_reddit *)
new_thread(keywords, search_id) ==
    [pc |-> "l52", keywords |-> keywords, search_id |-> search_id, i |-> 0,
     results |-> <<>>, calls |-> <<>>]

(* History of a thread: whether another job overlapped it, whether a /reset
   was handled during its lifetime, and whether one was handled outside its
   middle part (see InMiddle). *)
undisturbed == [job |-> FALSE, reset |-> FALSE, reset_edge |-> FALSE]

upload_rejected_clearing(f) ==
    /\ upload_error(f) # None
    /\ response' =
         [op |-> "upload", success |-> FALSE, error |-> upload_error(f)[1]]
    /\ request' = f
    /\ search_progress' = initial_progress
    /\ UNCHANGED <<uploads, reddit, threads, now, inflight, disturbed>>

upload_rejected(f) ==
    /\ upload_error(f) # None
    /\ response' =
         [op |-> "upload", success |-> FALSE, error |-> upload_error(f)[1]]
    /\ request' = f
    /\ UNCHANGED <<uploads, reddit, search_progress, threads, now, inflight,
                   disturbed>>

upload_accepted(f, maxjobs) ==
    /\ upload_error(f) = None
    /\ Cardinality(Launched) < maxjobs
    /\ datetime_now
    /\ LET j == Cardinality(Launched) + 1
           search_id == strftime(now')
       IN /\ threads' =
               [threads EXCEPT ![j] = new_thread(dropna(f.cells), search_id)]
          /\ response' =
               [op |-> "upload", success |-> TRUE, search_id |-> search_id]
          /\ disturbed' =
               [k \in Jobs |->
                  IF k = j
                  THEN [undisturbed EXCEPT !.job = \E m \in Jobs : Alive(m)]
                  ELSE IF Alive(k) THEN [disturbed[k] EXCEPT !.job = TRUE]
                  ELSE disturbed[k]]
    /\ request' = f
    /\ UNCHANGED <<uploads, reddit, search_progress, inflight>>

upload_file(f, maxjobs) ==
    IF upload_error(f) # None
    THEN upload_rejected(f)
    ELSE upload_accepted(f, maxjobs)

----------------------------------------------------------------------------
(* progress_data, lines 148-159 *)

snapshot_by_truth(sp) ==
    [current |-> sp.current, total |-> sp.total, message |-> sp.message,
     is_running |-> sp.is_running,
     has_results |-> sp.results # None /\ sp.results # Some(<<>>),
     error |-> sp.error, search_id |-> sp.search_id]

snapshot(sp) ==
    [current |-> sp.current, total |-> sp.total, message |-> sp.message,
     is_running |-> sp.is_running, has_results |-> sp.results # None,
     error |-> sp.error, search_id |-> sp.search_id]

progress_data ==
    /\ response' = [op |-> "progress_data", json |-> snapshot(search_progress)]
    /\ request' = no_request
    /\ UNCHANGED <<uploads, reddit, search_progress, threads, now,
                   inflight, disturbed>>

----------------------------------------------------------------------------
(* show_results, lines 161-170 *)

redirect(op) == [op |-> op, status |-> 302, location |-> "/"]

(* lines 165-167: the first read of search_progress['results'] *)
show_results_165 ==
    /\ inflight = "idle"
    /\ IF search_progress.results = None
       THEN /\ response' = redirect("results")
            /\ inflight' = "idle"
       ELSE /\ response' = no_response
            /\ inflight' = "show_l169"
    /\ request' = no_request
    /\ UNCHANGED <<uploads, reddit, search_progress, threads, now, disturbed>>

(* lines 169-170: the second read; len(None) raises TypeError, which Flask
   answers with status 500 *)
render_results(results) ==
    IF results = None
    THEN [op |-> "results", status |-> 500]
    ELSE [op |-> "results", status |-> 200, results |-> results[1],
          total_results |-> Len(results[1])]

show_results_169 ==
    /\ inflight = "show_l169"
    /\ response' = render_results(search_progress.results)
    /\ inflight' = "idle"
    /\ request' = no_request
    /\ UNCHANGED <<uploads, reddit, search_progress, threads, now, disturbed>>

show_results == show_results_165 \/ show_results_169

----------------------------------------------------------------------------
(* download_results, lines 172-195 *)

download_results_176 ==
    /\ inflight = "idle"
    /\ IF search_progress.results = None
       THEN /\ response' = redirect("download")
            /\ inflight' = "idle"
       ELSE /\ response' = no_response
            /\ inflight' = "download_l182"
    /\ request' = no_request
    /\ UNCHANGED <<uploads, reddit, search_progress, threads, now, disturbed>>

(* lines 181-195: the second read; pd.DataFrame(None) is an empty frame, so
   a sheet without rows is sent *)
send_file(results, t) ==
    [op |-> "download", status |-> 200,
     rows |-> IF results = None THEN <<>> ELSE results[1],
     download_name |-> "reddit_results_" \o strftime(t) \o ".xlsx"]

download_results_182 ==
    /\ inflight = "download_l182"
    /\ datetime_now
    /\ response' = send_file(search_progress.results, now')
    /\ inflight' = "idle"
    /\ request' = no_request
    /\ UNCHANGED <<uploads, reddit, search_progress, threads, disturbed>>

download_results == download_results_176 \/ download_results_182

----------------------------------------------------------------------------
(* reset, lines 197-209 *)

reset_progress_keeping_results ==
    [current |-> 0, total |-> 0, message |-> "", is_running |-> FALSE,
     results |-> search_progress.results, error |-> None, search_id |-> None]

reset_progress_keeping_id ==
    [current |-> 0, total |-> 0, message |-> "", is_running |-> FALSE,
     results |-> None, error |-> None, search_id |-> search_progress.search_id]

reset_progress ==
    [current |-> 0, total |-> 0, message |-> "", is_running |-> FALSE,
     results |-> None, error |-> None, search_id |-> None]

reset_stopping_workers ==
    /\ search_progress' = reset_progress
    /\ response' = redirect("reset")
    /\ threads' =
         [k \in Jobs |->
            IF Alive(k) THEN [threads[k] EXCEPT !.pc = "done"] ELSE threads[k]]
    /\ request' = no_request
    /\ UNCHANGED <<uploads, reddit, now, inflight, disturbed>>

(* The middle part of a running thread: it has stored the job identifier
   (line 61) and has not yet taken its last keyword (line 66). *)
InMiddle(t) ==
    /\ t.pc \in {"l62", "l65", "l67"}
    /\ t.i < Len(t.keywords)

reset ==
    /\ search_progress' = reset_progress
    /\ response' = redirect("reset")
    /\ disturbed' =
         [k \in Jobs |->
            IF Alive(k)
            THEN [disturbed[k] EXCEPT
                    !.reset = TRUE,
                    !.reset_edge = @ \/ ~InMiddle(threads[k])]
            ELSE disturbed[k]]
    /\ request' = no_request
    /\ UNCHANGED <<uploads, reddit, threads, now, inflight>>

----------------------------------------------------------------------------
(* Inputs *)

Str_csv == <<".", "c", "s", "v">>

good_file(cells) ==
    [part |-> TRUE, filename |-> <<"k">> \o Str_xlsx, size |-> 1,
     read_excel |-> "ok", columns |-> {"Keyword", "Notes"}, cells |-> cells]

Repeat(c, n) == [k \in 1..n |-> c]

(* Requests of Spec: a one-keyword sheet and a two-keyword sheet. *)
Files == {good_file(<<"a">>), good_file(<<"b", NaN, "a">>)}

(* What a search call does in Spec: it yields MaxPosts submissions, or
   raises before the first. *)
FewOutcomes ==
    {[posts |-> Min(MaxPosts, SEARCH_LIMIT), raises |-> FALSE],
     [posts |-> 0, raises |-> TRUE]}

(* Requests of SpecJob: every sheet of up to MaxCells cells, and a sheet
   without the Keyword column. *)
CellLists == UNION {[1..n -> Keywords \cup {NaN}] : n \in 0..MaxCells}

JobFiles ==
    {good_file(cells) : cells \in {c \in CellLists : dropna(c) # <<>>}}
    \cup {[good_file(<<"a">>) EXCEPT !.columns = {"keyword"}]}

(* Requests of SpecUpload: every combination of the properties the checks
   of upload_file read, with a size and a keyword count on each side of the
   two limits. *)
Filenames ==
    {<<>>, <<"k">> \o Str_xlsx, <<"k">> \o Str_xls, <<"k">> \o Str_csv}

FileSizes == {MAX_FILE_SIZE, MAX_FILE_SIZE + 1}

UploadCells ==
    {<<NaN>>, <<"b">>,
     Append(Repeat("a", MAX_KEYWORDS), NaN),
     Repeat("a", MAX_KEYWORDS + 1)}

UploadFiles ==
    [part : BOOLEAN, filename : Filenames, size : FileSizes,
     read_excel : {"ok", "BadZipFile"},
     columns : {{"Keyword", "Notes"}, {"keyword"}},
     cells : UploadCells]

----------------------------------------------------------------------------
(* Specifications *)

InitOf(sent) ==
    /\ uploads \in sent
    /\ request = no_request
    /\ reddit \in {"client", "None"}
    /\ search_progress = initial_progress
    /\ threads = [j \in Jobs |-> unstarted]
    /\ now = 0
    /\ response = no_response
    /\ inflight = "idle"
    /\ disturbed = [j \in Jobs |-> undisturbed]

Init == InitOf({Files})

NextOf(outcomes, maxjobs) ==
    \/ \E j \in Jobs : search_reddit(j, outcomes)
    \/ \E f \in uploads : upload_file(f, maxjobs)
    \/ progress_data
    \/ show_results
    \/ download_results
    \/ reset

(* Overlapping jobs: up to MaxJobs uploads accepted, in any interleaving
   with the threads they start and with the other requests. *)
Next == NextOf(FewOutcomes, MaxJobs)
Spec == Init /\ [][Next]_vars

(* One job, every small sheet, every outcome of a search call. *)
InitJob == InitOf({JobFiles})
NextJob == NextOf(SearchOutcomes, 1)
SpecJob == InitJob /\ [][NextJob]_vars

(* The checks of upload_file: the clients send a one-keyword sheet and one
   other request, which is any combination of request properties; one job. *)
InitUpload == InitOf({{good_file(<<"a">>), f} : f \in UploadFiles})
NextUpload == NextOf(QuietOutcomes, 1)
SpecUpload == InitUpload /\ [][NextUpload]_vars

(* Termination: up to MaxJobs jobs on a one-keyword sheet, overlapping in
   any way with each other and with the requests.  The interpreter switches
   threads every few milliseconds, so a thread that can take a step takes
   it eventually, and a search call is taken to return or raise: each
   thread's next statement is weakly fair.  Nothing is assumed of the
   clients. *)
InitLive == InitOf({{good_file(<<"a">>)}})
NextLive == NextOf(FewOutcomes, MaxJobs)
Scheduling == \A j \in Jobs : WF_vars(search_reddit(j, FewOutcomes))
SpecLive == InitLive /\ [][NextLive]_vars /\ Scheduling

----------------------------------------------------------------------------
(* Vocabulary of the properties *)

Available == reddit # "None"

(* No other job and no /reset has overlapped the lifetime of thread j. *)
Undisturbed(j) == ~disturbed[j].job /\ ~disturbed[j].reset

(* This step is a step of thread j / the last step of thread j / the upload
   that starts thread j. *)
Moves(j) == threads[j].pc # "unstarted" /\ threads'[j] # threads[j]
Ends(j) == threads[j].pc # "done" /\ threads'[j].pc = "done"
Launches(j) == threads[j].pc = "unstarted" /\ threads'[j].pc # "unstarted"

(* Positions of thread j after total (line 57) and after current (line 58)
   were first stored and before the thread ends. *)
AfterTotal == {"l58", "l59", "l60", "l61", "l62", "l65", "l67", "l86"}
AfterCurrent == AfterTotal \ {"l58"}

----------------------------------------------------------------------------
(* C1.  For a job run with an available client and overlapped by no other
   job and no /reset: total equals the batch length from the store of line
   57 until the job ends; current is 0 after line 58, equals the number of
   keywords taken so far at every later point, moves only by +1, and equals
   total when the job ends. *)
C1_StepOk(j) ==
    LET t == threads'[j]
        sp == search_progress'
    IN /\ t.pc \in AfterTotal => sp.total = Len(t.keywords)
       /\ t.pc = "l59" => sp.current = 0
       /\ t.pc \in AfterCurrent => sp.current = t.i
       /\ (threads[j].pc \in AfterCurrent /\ t.pc \in AfterCurrent \cup {"done"})
            => sp.current \in {search_progress.current,
                               search_progress.current + 1}
       /\ Ends(j) => /\ sp.total = Len(t.keywords)
                     /\ sp.current = sp.total
                     /\ t.i = Len(t.keywords)

C1_TotalAndCurrent ==
    [][\A j \in Jobs : (Available /\ Undisturbed(j)') => C1_StepOk(j)]_vars

(* An undisturbed second job, run after a first one, has ended on a
   two-keyword batch whose first search raised. *)
C1_Witness ==
    /\ Available
    /\ threads[1].pc = "done" /\ threads[2].pc = "done"
    /\ Undisturbed(1) /\ Undisturbed(2)
    /\ Len(threads[2].keywords) = 2
    /\ threads[2].calls[1].raises
    /\ search_progress.current = 2 /\ search_progress.total = 2

----------------------------------------------------------------------------
(* C2.  Whatever positions of the batch have a search call that raises: the
   raise changes neither error nor is_running and leaves the loop at its
   head with the index unchanged, so the next keyword is taken next; the
   thread never stores an error; when it reaches line 85 it has made one
   search call per keyword, in order; and it ends through lines 85-86,
   which, when no /reset has overlapped it, leaves results present with the
   list it accumulated, is_running false and error absent. *)
JustSearched(j) ==
    /\ Moves(j)
    /\ Len(threads'[j].calls) = Len(threads[j].calls) + 1

C2_StepOk(j) ==
    LET t == threads'[j]
        sp == search_progress'
    IN /\ (JustSearched(j) /\ t.calls[Len(t.calls)].raises)
            => /\ sp.error = search_progress.error
               /\ sp.is_running = search_progress.is_running
               /\ sp.results = search_progress.results
               /\ t.pc = "l65"
               /\ t.i = threads[j].i
       /\ JustSearched(j) => Len(t.calls) = t.i
       /\ Moves(j) => sp.error \in {search_progress.error, None}
       /\ t.pc \in {"l86", "done"} => Len(t.calls) = Len(t.keywords)
       /\ Ends(j) => threads[j].pc = "l86"
       /\ (Ends(j) /\ ~disturbed'[j].reset /\ ~disturbed'[j].job)
            => /\ sp.results = Some(t.results)
               /\ sp.is_running = FALSE
               /\ sp.error = None

C2_FailureDoesNotAbort ==
    [][\A j \in Jobs : Available => C2_StepOk(j)]_vars

(* A job has ended completed on a two-keyword batch whose first search call
   raised and whose second yielded a submission. *)
C2_Witness ==
    \E j \in Jobs :
        /\ Available
        /\ threads[j].pc = "done"
        /\ Undisturbed(j)
        /\ Len(threads[j].calls) = 2
        /\ threads[j].calls[1].raises
        /\ ~threads[j].calls[2].raises
        /\ search_progress.results = Some(threads[j].results)
        /\ Len(threads[j].results) > 0
        /\ search_progress.error = None
        /\ ~search_progress.is_running

----------------------------------------------------------------------------
(* C3.  No record of the published results comes from a batch position
   whose search call raised.  (Each record carries the thread and the
   position it was built for.) *)
RECURSIVE NoneFromRaised(_)
NoneFromRaised(records) ==
    \/ records = <<>>
    \/ /\ ~threads[Head(records).Submission[1]]
               .calls[Head(records).Submission[2]].raises
       /\ NoneFromRaised(Tail(records))

C3_FailedKeywordAbsent ==
    search_progress.results # None
        => NoneFromRaised(search_progress.results[1])

----------------------------------------------------------------------------
(* C4.  In the state right after /reset is answered, whatever the state
   before, search_progress is the initial record: current 0, total 0, empty
   message, not running, no results, no error, no job identifier. *)
C4_ResetRestoresInitial ==
    response.op = "reset"
        => /\ search_progress = initial_progress
           /\ search_progress =
                [current |-> 0, total |-> 0, message |-> "",
                 is_running |-> FALSE, results |-> None, error |-> None,
                 search_id |-> None]

(* /reset has just been answered while a job is between two keywords, after
   an earlier job had completed. *)
C4_Witness ==
    /\ response.op = "reset"
    /\ threads[1].pc = "done"
    /\ threads[2].pc = "l65" /\ threads[2].i = 1
    /\ Len(threads[2].keywords) = 2

----------------------------------------------------------------------------
(* The checks of an upload as the interface states them, in their order,
   each with its error. *)
KeywordCount(f) == Cardinality({k \in DOMAIN f.cells : f.cells[k] # NaN})

HasSuffix(name, suffix) ==
    \E n \in 0..Len(name) : SubSeq(name, n + 1, Len(name)) = suffix

UploadChecks(f) ==
    << [fails |-> ~f.part,
        error |-> "No file selected"],
       [fails |-> f.filename = <<>>,
        error |-> "No file selected"],
       [fails |-> ~(\/ HasSuffix(f.filename, <<".", "x", "l", "s", "x">>)
                    \/ HasSuffix(f.filename, <<".", "x", "l", "s">>)),
        error |-> "Please upload an Excel file (.xlsx or .xls)"],
       [fails |-> f.size > 5242880,
        error |-> "File size too large. Maximum 5MB allowed."],
       [fails |-> f.read_excel # "ok",
        error |-> "Error reading file: " \o f.read_excel],
       [fails |-> "Keyword" \notin f.columns,
        error |-> "Excel file must have a 'Keyword' column"],
       [fails |-> KeywordCount(f) = 0,
        error |-> "No keywords found in the Excel file"],
       [fails |-> KeywordCount(f) > 20,
        error |->
          "Too many keywords. Maximum 20 keywords allowed for Vercel deployment."]
    >>

Failing(f) == {k \in DOMAIN UploadChecks(f) : UploadChecks(f)[k].fails}
FirstFailing(f) == CHOOSE k \in Failing(f) : \A m \in Failing(f) : k <= m

(* C5.  An upload that fails any of the eight checks is answered with
   success = false, starts no thread and leaves search_progress as it was. *)
C5_RejectedUploadChangesNothing ==
    [][(response'.op = "upload" /\ Failing(request') # {})
         => /\ response'.success = FALSE
            /\ threads' = threads
            /\ search_progress' = search_progress]_vars

(* An upload with too many keywords has just been rejected while the results
   of a completed job are present. *)
C5_Witness ==
    /\ response.op = "upload"
    /\ ~response.success
    /\ Failing(request) = {8}
    /\ threads[1].pc = "done"
    /\ search_progress.results # None

(* C6.  An upload is answered with the error of the first failing check in
   the stated order and starts no thread; when no check fails it is answered
   with success = true and the search_id of the thread it starts, which is
   given the non-blank cells of the Keyword column in their order.  A file
   of exactly 5 MB and a sheet of exactly 20 keywords pass. *)
C6_StepOk ==
    LET f == request'
    IN IF Failing(f) # {}
       THEN /\ response' =
                 [op |-> "upload", success |-> FALSE,
                  error |-> UploadChecks(f)[FirstFailing(f)].error]
            /\ threads' = threads
       ELSE /\ response'.success = TRUE
            /\ \E j \in Jobs :
                 /\ Launches(j)
                 /\ \A k \in Jobs \ {j} : threads'[k] = threads[k]
                 /\ threads'[j].pc = "l52"
                 /\ threads'[j].keywords = dropna(f.cells)
                 /\ Len(threads'[j].keywords) = KeywordCount(f)
                 /\ response'.search_id = threads'[j].search_id
                 /\ response'.search_id = strftime(now')

C6_ChecksInOrder == [][response'.op = "upload" => C6_StepOk]_vars

(* An upload of exactly 5 MB holding exactly 20 keywords and a blank cell
   has just been accepted. *)
C6_Witness ==
    /\ response.op = "upload"
    /\ response.success
    /\ request.size = 5242880
    /\ KeywordCount(request) = 20
    /\ Len(request.cells) = 21
    /\ threads[1].pc = "l52"
    /\ Len(threads[1].keywords) = 20

----------------------------------------------------------------------------
(* C7.  /results and /download never store into search_progress; a request
   that finds results absent is answered with a redirect to /; a request
   that found results present is answered with status 200 and the results
   that are present. *)
C7_StepOk ==
    /\ (response'.op \in {"results", "download"} \/ inflight' # inflight)
         => search_progress' = search_progress
    /\ (response'.op \in {"results", "download"} /\ inflight = "idle")
         => /\ search_progress.results = None
            /\ response' = redirect(response'.op)
    /\ (inflight = "idle" /\ inflight' # "idle")
         => search_progress.results # None
    /\ (inflight = "show_l169" /\ inflight' = "idle")
         => /\ search_progress.results # None
            /\ response'.status = 200
            /\ response'.results = search_progress.results[1]
    /\ (inflight = "download_l182" /\ inflight' = "idle")
         => /\ search_progress.results # None
            /\ response'.status = 200
            /\ response'.rows = search_progress.results[1]

C7_ResultsServedOrRedirected == [][C7_StepOk]_vars

----------------------------------------------------------------------------
(* C8.  With the client unavailable a job takes exactly the two stores of
   lines 53-54: it makes no search call and never changes current, total,
   results or the job identifier; results is absent when it ends, and,
   unless a /reset came between its two stores, error holds the
   configuration message and is_running is false. *)
C8_StepOk(j) ==
    LET t == threads'[j]
        sp == search_progress'
    IN /\ t.pc \in {"unstarted", "l52", "l54", "done"}
       /\ t.calls = <<>>
       /\ Moves(j) => /\ sp.current = search_progress.current
                      /\ sp.total = search_progress.total
                      /\ sp.results = search_progress.results
                      /\ sp.search_id = search_progress.search_id
       /\ Ends(j) => sp.results = None /\ ~sp.is_running
       /\ (Ends(j) /\ ~disturbed'[j].reset) => sp.error = Some(CONFIG_ERROR)

C8_UnavailableClientFails ==
    [][\A j \in Jobs : ~Available => C8_StepOk(j)]_vars

(* With the client unavailable, a second job has ended after a first job
   that a /reset had overlapped. *)
C8_Witness ==
    /\ ~Available
    /\ threads[1].pc = "done" /\ disturbed[1].reset
    /\ threads[2].pc = "done" /\ ~disturbed[2].reset
    /\ search_progress.error = Some(CONFIG_ERROR)
    /\ ~search_progress.is_running
    /\ search_progress.results = None

----------------------------------------------------------------------------
(* C9.  Vocabulary: the record a job is said to initialise, and the step in
   which it takes its first keyword. *)
InitialisedFor(t, sp) ==
    /\ sp.total = Len(t.keywords)
    /\ sp.current = 0
    /\ sp.is_running = TRUE
    /\ sp.error = None
    /\ sp.results = None
    /\ sp.search_id = Some(t.search_id)

BeginsSearch(j) ==
    threads[j].pc = "l65" /\ threads[j].i = 0 /\ threads'[j].pc = "l67"

C9_IdIsReturned(j) ==
    Launches(j) => /\ response'.op = "upload"
                   /\ response'.success
                   /\ response'.search_id = threads'[j].search_id

(* C9 as claimed.  Every job, with or without a client, has initialised
   search_progress before it takes its first keyword or ends: when no other
   job and no /reset overlaps it, search_progress is the initialised record
   when the first keyword is taken, and total and the job identifier are
   the job's own when it ends. *)
C9_Original ==
    [][\A j \in Jobs :
         /\ C9_IdIsReturned(j)
         /\ Undisturbed(j)' =>
              /\ BeginsSearch(j) => InitialisedFor(threads[j], search_progress)
              /\ Ends(j) =>
                   /\ search_progress'.total = Len(threads[j].keywords)
                   /\ search_progress'.search_id = Some(threads[j].search_id)
      ]_vars

(* C9 as amended.  With the client available, every job stores total =
   batch length, current = 0, is_running = true, error absent, job
   identifier = the search_id its upload returned and results absent, in
   this order and each store changing that field alone, before it takes a
   keyword; when no other job and no /reset overlaps it, search_progress is
   the initialised record when the first keyword is taken.  With the client
   unavailable the job changes none of total, current, results and the job
   identifier. *)
C9_Stores(j) ==
    LET t == threads[j]
        sp == search_progress
    IN CASE t.pc = "l52" ->
              /\ threads'[j].pc = "l58"
              /\ search_progress' = [sp EXCEPT !.total = Len(t.keywords)]
         [] t.pc = "l58" ->
              /\ threads'[j].pc = "l59"
              /\ search_progress' = [sp EXCEPT !.current = 0]
         [] t.pc = "l59" ->
              /\ threads'[j].pc = "l60"
              /\ search_progress' = [sp EXCEPT !.is_running = TRUE]
         [] t.pc = "l60" ->
              /\ threads'[j].pc = "l61"
              /\ search_progress' = [sp EXCEPT !.error = None]
         [] t.pc = "l61" ->
              /\ threads'[j].pc = "l62"
              /\ search_progress' = [sp EXCEPT !.search_id = Some(t.search_id)]
         [] t.pc = "l62" ->
              /\ threads'[j].pc = "l65"
              /\ search_progress' = [sp EXCEPT !.results = None]
         [] OTHER -> t.i > 0 \/ threads'[j].pc = "l67"

C9_InitialisesWhenAvailable ==
    [][\A j \in Jobs :
         /\ C9_IdIsReturned(j)
         /\ (Available /\ Moves(j)) => C9_Stores(j)
         /\ (Available /\ Undisturbed(j)' /\ BeginsSearch(j))
              => InitialisedFor(threads[j], search_progress)
         /\ (~Available /\ Moves(j))
              => /\ search_progress'.total = search_progress.total
                 /\ search_progress'.current = search_progress.current
                 /\ search_progress'.results = search_progress.results
                 /\ search_progress'.search_id = search_progress.search_id
      ]_vars

(* An undisturbed second job, launched after a first job had completed with
   results, is about to take its first keyword. *)
C9_Witness ==
    /\ Available
    /\ threads[1].pc = "done"
    /\ Len(threads[1].results) > 0
    /\ Undisturbed(1) /\ Undisturbed(2)
    /\ threads[2].pc = "l65" /\ threads[2].i = 0
    /\ InitialisedFor(threads[2], search_progress)

----------------------------------------------------------------------------
(* C10.  results and error are never present together. *)
C10_ResultsAndErrorExclusive ==
    ~(search_progress.results # None /\ search_progress.error # None)

(* Results are present after two jobs that overlapped and a /reset that
   overlapped the second. *)
C10_Witness ==
    /\ threads[1].pc = "done" /\ threads[2].pc = "done"
    /\ disturbed[1].job /\ disturbed[2].reset
    /\ search_progress.results # None
    /\ search_progress.error = None

----------------------------------------------------------------------------
(* C11.  Vocabulary: every launched thread eventually ends; and the steps of
   a thread are its own: a step that changes a launched thread's record
   sends no HTTP response, moves the thread to the next statement of
   search_reddit, and ends it only from line 54 or line 86, by storing
   is_running = false. *)
EveryJobEnds ==
    \A j \in Jobs : (threads[j].pc # "unstarted") ~> (threads[j].pc = "done")

Successors ==
    {<<"l52", "l54">>, <<"l54", "done">>, <<"l52", "l58">>, <<"l58", "l59">>,
     <<"l59", "l60">>, <<"l60", "l61">>, <<"l61", "l62">>, <<"l62", "l65">>,
     <<"l65", "l67">>, <<"l67", "l65">>, <<"l65", "l86">>, <<"l86", "done">>}

NoCancel(j) ==
    /\ threads[j].pc = "done" => threads'[j] = threads[j]
    /\ Moves(j) => /\ response' = no_response
                   /\ <<threads[j].pc, threads'[j].pc>> \in Successors
                   /\ threads'[j].keywords = threads[j].keywords
    /\ Ends(j) => ~search_progress'.is_running

(* C11 as claimed.  Every launched thread eventually ends, no request stops
   it, and whenever a thread ends is_running is false and results or error
   is present. *)
C11_Original ==
    /\ EveryJobEnds
    /\ [][\A j \in Jobs :
            /\ NoCancel(j)
            /\ Ends(j) => \/ search_progress'.results # None
                          \/ search_progress'.error # None]_vars

(* C11 as amended.  Every launched thread eventually ends, no request stops
   it, and its last step stores is_running = false, from line 86 with the
   client available and from line 54 without; when no /reset and no other
   job has overlapped it, results (client available) or error (client
   unavailable) is present when it ends. *)
C11_EveryJobEnds ==
    /\ EveryJobEnds
    /\ [][\A j \in Jobs :
            /\ NoCancel(j)
            /\ Ends(j) => threads[j].pc = IF Available THEN "l86" ELSE "l54"
            /\ (Ends(j) /\ Undisturbed(j)')
                 => IF Available
                    THEN /\ search_progress'.results = Some(threads[j].results)
                         /\ search_progress'.error = None
                    ELSE /\ search_progress'.error = Some(CONFIG_ERROR)
                         /\ search_progress'.results = None]_vars

(* Two overlapping jobs have both ended although a /reset was handled during
   each of them. *)
C11_Witness ==
    /\ threads[1].pc = "done" /\ threads[2].pc = "done"
    /\ disturbed[1].job /\ disturbed[2].job
    /\ disturbed[1].reset /\ disturbed[2].reset
    /\ ~search_progress.is_running

----------------------------------------------------------------------------
(* C12.  Vocabulary: the records of the submissions the client yielded to
   thread j (record t) at batch position p, in the order yielded, each with
   that position's keyword; their concatenation over the first n positions;
   and the number of submissions yielded over the first n positions. *)
PositionRecords(t, j, p) ==
    [k \in 1..t.calls[p].posts |->
        [Keyword |-> t.keywords[p], Submission |-> <<j, p, k>>]]

RECURSIVE BatchRecords(_, _, _)
BatchRecords(t, j, n) ==
    IF n = 0 THEN <<>>
    ELSE BatchRecords(t, j, n - 1) \o PositionRecords(t, j, n)

RECURSIVE PostCount(_, _)
PostCount(t, n) == IF n = 0 THEN 0 ELSE PostCount(t, n - 1) + t.calls[n].posts

Publishes(j) == threads[j].pc = "l65" /\ threads'[j].pc = "l86"

(* C12.  The list a job publishes at line 85 is the concatenation, over the
   batch positions in input order, of the records of the submissions yielded
   for that position, in the order yielded and with that position's keyword;
   its length is the sum of the numbers of submissions yielded; and it is
   what results holds when the job ends, unless a /reset or another job
   overlapped it. *)
C12_StepOk(j) ==
    LET t == threads'[j]
        n == Len(t.keywords)
        sp == search_progress'
    IN /\ Publishes(j)
            => /\ sp.results = Some(BatchRecords(t, j, n))
               /\ Len(sp.results[1]) = PostCount(t, n)
               /\ \A k \in 1..Len(sp.results[1]) :
                    sp.results[1][k].Keyword =
                        t.keywords[sp.results[1][k].Submission[2]]
       /\ (Ends(j) /\ Undisturbed(j)')
            => sp.results = Some(BatchRecords(t, j, n))

C12_ResultsInInputOrder ==
    [][\A j \in Jobs : Available => C12_StepOk(j)]_vars

(* A job on the batch <<"a", "a">> has completed with two submissions for
   the first position and one for the second. *)
C12_Witness ==
    \E j \in Jobs :
        /\ Available
        /\ threads[j].pc = "done"
        /\ Undisturbed(j)
        /\ threads[j].keywords = <<"a", "a">>
        /\ threads[j].calls[1].posts = 2
        /\ threads[j].calls[2].posts = 1
        /\ search_progress.results # None
        /\ Len(search_progress.results[1]) = 3
        /\ search_progress.results[1][3].Submission = <<j, 2, 1>>

----------------------------------------------------------------------------
(* C13.  /progress_data can be answered in every reachable state; answering
   it changes nothing of the program's state; the answer is the seven-field
   snapshot of search_progress as it is, and its has_results is true exactly
   when results is present, an empty list included. *)
C13_Answerable == ENABLED progress_data

C13_StepOk ==
    response'.op = "progress_data"
        => /\ search_progress' = search_progress
           /\ threads' = threads
           /\ reddit' = reddit /\ now' = now /\ inflight' = inflight
           /\ DOMAIN response' = {"op", "json"}
           /\ response'.json.has_results = (search_progress.results # None)
           /\ response'.json.current = search_progress.current
           /\ response'.json.total = search_progress.total
           /\ response'.json.message = search_progress.message
           /\ response'.json.is_running = search_progress.is_running
           /\ response'.json.error = search_progress.error
           /\ response'.json.search_id = search_progress.search_id

C13_ProgressIsPureRead == []C13_Answerable /\ [][C13_StepOk]_vars

(* /progress_data has just reported has_results for a completed job whose
   result list is empty. *)
C13_Witness ==
    /\ response.op = "progress_data"
    /\ response.json.has_results
    /\ ~response.json.is_running
    /\ search_progress.results = Some(<<>>)
    /\ \E j \in Jobs : threads[j].pc = "done"

----------------------------------------------------------------------------
(* C14.  When the second upload was accepted while the first job was still
   running and no /reset was handled during either job, then at the step in
   which the later of the two threads ends, results is the list of the
   second job and the job identifier is the second job's. *)
C14_NewJobDiscardsPrior ==
    [][(/\ Available
        /\ \E j \in Jobs : Ends(j)
        /\ threads'[1].pc = "done" /\ threads'[2].pc = "done"
        /\ disturbed'[2].job
        /\ ~disturbed'[1].reset /\ ~disturbed'[2].reset)
          => /\ search_progress'.results = Some(threads'[2].results)
             /\ search_progress'.search_id = Some(threads'[2].search_id)]_vars

----------------------------------------------------------------------------
(* C15.  Whenever results is present it is the whole list of one thread that
   has left its loop: every record in it was built by that thread, and it
   holds, in order, exactly the records of every submission yielded to that
   thread over its whole batch. *)
WholeListOf(j, list) ==
    /\ threads[j].pc \in {"l86", "done"}
    /\ list = threads[j].results
    /\ list = BatchRecords(threads[j], j, Len(threads[j].keywords))
    /\ \A k \in 1..Len(list) : list[k].Submission[1] = j

C15_ResultsOfOneJob ==
    search_progress.results # None
        => \E j \in Jobs : WholeListOf(j, search_progress.results[1])

(* Two jobs overlapped and each accumulated submissions; both have ended and
   results is the list of the first, which published last. *)
C15_Witness ==
    /\ threads[1].pc = "done" /\ threads[2].pc = "done"
    /\ disturbed[1].job /\ disturbed[2].job
    /\ Len(threads[1].results) > 0 /\ Len(threads[2].results) > 0
    /\ search_progress.results = Some(threads[1].results)
    /\ WholeListOf(1, search_progress.results[1])

----------------------------------------------------------------------------
(* C16.  Vocabulary: the record the claim describes for a job that a /reset
   overlapped, and the fact that a step of a thread stores into one key of
   the record search_progress is bound to at that moment. *)
AfterOverlappedJob(t, sp) ==
    /\ sp.results = Some(t.results)
    /\ sp.is_running = FALSE
    /\ sp.current = Len(t.keywords)
    /\ sp.total = 0
    /\ sp.search_id = None

StoresOneKey ==
    \E key \in DOMAIN search_progress :
        \A other \in DOMAIN search_progress \ {key} :
            search_progress'[other] = search_progress[other]

ResetKeepsWorkers ==
    response'.op = "reset"
        => /\ threads' = threads
           /\ search_progress' = initial_progress

(* C16 as claimed.  A /reset leaves the threads as they are, and when a job
   that a /reset overlapped (and no other job did) ends, results is its
   list, is_running is false, current is the batch length, total is 0 and
   the job identifier is absent. *)
C16_Original ==
    [][/\ ResetKeepsWorkers
       /\ \A j \in Jobs :
            (Available /\ Ends(j) /\ disturbed'[j].reset /\ ~disturbed'[j].job)
                => AfterOverlappedJob(threads'[j], search_progress')]_vars

(* C16 as amended.  A /reset leaves the threads as they are; every later
   step of a thread stores into one key of the fresh record; and when every
   /reset that overlapped a job was handled after the job stored its
   identifier (line 61) and before it took its last keyword (line 66), and
   no other job overlapped it, then at its end results is its list,
   is_running is false, current is the batch length, total is 0 and the job
   identifier is absent. *)
C16_ResetDoesNotDetach ==
    [][/\ ResetKeepsWorkers
       /\ \A j \in Jobs :
            /\ Moves(j) => StoresOneKey
            /\ (/\ Available /\ Ends(j)
                /\ disturbed'[j].reset /\ ~disturbed'[j].reset_edge
                /\ ~disturbed'[j].job)
                 => AfterOverlappedJob(threads'[j], search_progress')]_vars

(* A job on a two-keyword batch has ended after a /reset handled between its
   two keywords; it accumulated submissions. *)
C16_Witness ==
    \E j \in Jobs :
        /\ Available
        /\ threads[j].pc = "done"
        /\ disturbed[j].reset /\ ~disturbed[j].reset_edge /\ ~disturbed[j].job
        /\ Len(threads[j].keywords) = 2
        /\ Len(threads[j].results) > 0
        /\ AfterOverlappedJob(threads[j], search_progress)
        /\ search_progress.message = "Searching for: b"

----------------------------------------------------------------------------
(* Vocabulary of C17-C19: so far no job has overlapped another and no
   /reset was handled during a job; the step just taken answered
   /progress_data; the job launched last. *)
JobsApart == \A j \in Jobs : ~disturbed[j].job /\ ~disturbed[j].reset

Polled == response.op = "progress_data"

LastJob == Cardinality(Launched)

(* C17.  With jobs apart, every snapshot /progress_data returns has
   0 <= current <= total. *)
C17_CurrentWithinTotal ==
    (JobsApart /\ Polled)
        => /\ 0 <= response.json.current
           /\ response.json.current <= response.json.total

(* C18.  With jobs apart, no snapshot /progress_data returns has is_running
   and has_results both true. *)
C18_RunningWithoutResults ==
    (JobsApart /\ Polled)
        => ~(response.json.is_running /\ response.json.has_results)

(* C19.  With the client available and jobs apart, a snapshot returned after
   the last upload was accepted that has is_running false and has_results
   true carries the search_id that upload returned, and results is then the
   list of the job that upload launched. *)
C19_FinishedMeansThisJob ==
    (/\ Available /\ JobsApart /\ Polled
     /\ LastJob > 0
     /\ ~response.json.is_running /\ response.json.has_results)
        => /\ response.json.search_id = Some(threads[LastJob].search_id)
           /\ search_progress.results = Some(threads[LastJob].results)

====
